---- MODULE Spec2Model ----
(***************************************************************************)
(* Flight tracker server (src/server/index.js): the flights table, the     *)
(* SerpAPI key rotation, the flexible-date fetch (fetchRealFlightPrices),  *)
(* its two triggers (POST /api/flights/search and the cron job), the seed  *)
(* endpoint and the two read endpoints (history, insights); and the way    *)
(* the dashboard (src/unnamed/part_000, fetchData) merges their answers.   *)
(*                                                                         *)
(* Strings of the program are sequences of one-character strings, so that  *)
(* toUpperCase and String.includes are computed character by character.    *)
(* Date strings 'YYYY-MM-DD' of the year 2024 are records [m, d]; a Date   *)
(* object is its time value, counted in hours since 2024-01-01T00:00Z.     *)
(***************************************************************************)
EXTENDS Integers, Sequences, FiniteSets, TLC

(* ---------------------------- bounds ---------------------------------- *)
\* most fetch triggers (cron fires plus search requests) in one behaviour
MaxTriggers == 2
\* largest flexDays a search request carries
MaxFlex == 1
\* upstream searches answered with data before the quota is exhausted
MaxQuota == 2
\* most calls of GET /api/seed in one behaviour
MaxSeeds == 1
\* most rows of an enumerated table the server starts on
MaxRows == 3

(* ---------------------------- strings --------------------------------- *)
LowerChars == <<"a", "f", "i", "j", "k", "m">>
UpperChars == <<"A", "F", "I", "J", "K", "M">>

\* String.prototype.toUpperCase on one character
ToUpperChar(c) ==
    IF \E i \in 1..Len(LowerChars) : LowerChars[i] = c
    THEN UpperChars[CHOOSE i \in 1..Len(LowerChars) : LowerChars[i] = c]
    ELSE c

\* String.prototype.toUpperCase (also SQL UPPER on ASCII text)
ToUpperCase(s) == [i \in 1..Len(s) |-> ToUpperChar(s[i])]

\* String.prototype.includes
Includes(s, sub) ==
    \E i \in 0..(Len(s) - Len(sub)) : SubSeq(s, i + 1, i + Len(sub)) = sub

EmptyStr == << >>
\* SQL NULL / JS undefined in a text position
Null == <<"<null>">>

JetBlue == <<"J", "e", "t", "B", "l", "u", "e">>
JSX == <<"J", "S", "X">>
JetBlueAirways == <<"J", "e", "t", "B", "l", "u", "e", " ", "A", "i", "r">>
JetblueLower == <<"j", "e", "t", "b", "l", "u", "e">>
Delta == <<"D", "e", "l", "t", "a">>

JFK == <<"J", "F", "K">>
MIA == <<"M", "I", "A">>
jfk == <<"j", "f", "k">>
Mia == <<"M", "i", "a">>

\* JS truthiness of a string-or-undefined value
Truthy(s) == s # EmptyStr /\ s # Null

(* ----------------------------- dates ---------------------------------- *)
\* days of 2024 before the first of each month
DaysBefore == <<0, 31, 60, 91, 121, 152, 182, 213, 244, 274, 305, 335>>

MonthOf(n) ==
    CHOOSE m \in 1..12 : DaysBefore[m] <= n /\ (m = 12 \/ n < DaysBefore[m + 1])

\* [m, d] of the n-th day of 2024 (n counted from 0)
DayToDate(n) == [m |-> MonthOf(n), d |-> n - DaysBefore[MonthOf(n)] + 1]

\* new Date('YYYY-MM-DD'): a date-only ISO string is midnight UTC
ParseDate(ds) == (DaysBefore[ds.m] + ds.d - 1) * 24

\* the host's time zones: UTC, and US Eastern around its 2024 spring
\* transition (2024-03-10T07:00Z, UTC-5 -> UTC-4)
ZoneUTC == [std |-> 0, dst |-> FALSE, start |-> 0]
ZoneNY == [std |-> -5, dst |-> TRUE, start |-> (DaysBefore[3] + 9) * 24 + 7]
Zones == {ZoneUTC, ZoneNY}

\* local-time offset in force at UTC instant u
Offset(z, u) == IF z.dst /\ u >= z.start THEN z.std + 1 ELSE z.std
LocalTime(z, u) == u + Offset(z, u)
\* UTC instant of local time l (a skipped local time takes the offset
\* in force before the transition)
UTCOf(z, l) == IF z.dst /\ l - z.std - 1 >= z.start THEN l - z.std - 1 ELSE l - z.std

\* Date.prototype.getDate: local day of the month
GetDate(z, u) == DayToDate(LocalTime(z, u) \div 24).d

\* Date.prototype.setDate: local day of the month replaced, local month and
\* local time of day kept, out-of-range days carried into adjacent months
SetDate(z, u, dom) ==
    LET l == LocalTime(z, u)
        n == DaysBefore[MonthOf(l \div 24)] + dom - 1
    IN  UTCOf(z, n * 24 + (l % 24))

\* d.toISOString().split('T')[0]: the UTC calendar date
IsoDate(u) == DayToDate(u \div 24)

\* the i-th day after ds on the calendar (i may be negative)
PlusDays(ds, i) == DayToDate(DaysBefore[ds.m] + ds.d - 1 + i)

NoDate == [m |-> 0, d |-> 0]
Apr12 == [m |-> 4, d |-> 12]
Mar10 == [m |-> 3, d |-> 10]

\* datesToSearch of fetchRealFlightPrices
RECURSIVE FlexDates(_, _, _, _)
FlexDates(z, baseDate, i, flexDays) ==
    IF i > flexDays THEN << >>
    ELSE << IsoDate(SetDate(z, baseDate, GetDate(z, baseDate) - i)),
            IsoDate(SetDate(z, baseDate, GetDate(z, baseDate) + i)) >>
         \o FlexDates(z, baseDate, i + 1, flexDays)

DatesToSearch(z, baseDateStr, flexDays) ==
    IF flexDays > 0
    THEN <<baseDateStr>> \o FlexDates(z, ParseDate(baseDateStr), 1, flexDays)
    ELSE <<baseDateStr>>

(* ------------------------- program state ------------------------------ *)
VARIABLES
    tz,            \* the host's time zone (fixed at start)
    now,           \* the wall clock, a time value (one instant per behaviour)
    serpApiKeys,   \* the configured keys, after filter(Boolean)
    serpKeyIndex,  \* the rotation index
    db,            \* the flights table, in rowid order
    task,          \* per trigger: the position of its fetchRealFlightPrices call
    res,           \* the last response of POST /api/flights/search
    out,           \* the response of the read endpoint handled in this step, if any
    queries,       \* the upstream requests issued so far, in order, each tagged
                   \* with its trigger and its position in the window
    draws,         \* the values getNextSerpKey has returned so far, in order
    console,       \* the kinds of message logged so far
    served,        \* upstream searches answered with data so far
    triggers,      \* fetch triggers so far
    seeds          \* seed calls so far

vars == <<tz, now, serpApiKeys, serpKeyIndex, db, task, res, out, queries,
          draws, console, served, triggers, seeds>>

Procs == {"cron", "http"}

Key1 == <<"k", "1">>
Key2 == <<"k", "2">>

\* [SERPAPI_KEY, SERPAPI_KEY_2].filter(Boolean)
FilterKeys(env) == SelectSeq(env, Truthy)

\* the .env configurations: each of the two variables set or unset
KeyEnvs == {<<k1, k2>> : k1 \in {Null, Key1}, k2 \in {EmptyStr, Key2}}

\* 2024-03-09T12:00Z
NowStart == (DaysBefore[3] + 8) * 24 + 12

NoBody == [origin |-> EmptyStr, destination |-> EmptyStr, date |-> NoDate,
           returnDate |-> NoDate, flexDays |-> 0]

Idle == [pc |-> "idle", origin |-> EmptyStr, destination |-> EmptyStr,
         apiKey |-> Null, datesToSearch |-> << >>, idx |-> 0,
         leg |-> "out", body |-> NoBody]

NoRes == [status |-> 0, text |-> "none"]
NoOut == [kind |-> "none", query |-> [origin |-> << >>, destination |-> << >>], body |-> << >>]

\* the server starts: the table is what flights.db holds (CREATE TABLE IF NOT
\* EXISTS keeps the rows of earlier runs), nothing is in flight
InitWith(zones, envs, tables) ==
    /\ tz \in zones
    /\ now = NowStart
    /\ serpApiKeys \in {FilterKeys(env) : env \in envs}
    /\ serpKeyIndex = 0
    /\ db \in tables
    /\ task = [p \in Procs |-> Idle]
    /\ res = NoRes
    /\ out = NoOut
    /\ queries = << >>
    /\ draws = << >>
    /\ console = {}
    /\ served = 0
    /\ triggers = 0
    /\ seeds = 0

\* the server starts on a fresh database file
InitIn(zones, envs) == InitWith(zones, envs, {<< >>})

\* the server started on a host whose clock is UTC, under any key configuration
Init == InitIn({ZoneUTC}, KeyEnvs)

(* ------------------------- key rotation ------------------------------- *)
\* NextKey, were the index used without the modulo: past the end of the
\* list the array read yields undefined
NextKeyNoWrap ==
    IF Len(serpApiKeys) = 0 \/ serpKeyIndex >= Len(serpApiKeys) THEN Null
    ELSE serpApiKeys[serpKeyIndex + 1]

\* the value getNextSerpKey returns
NextKey ==
    IF Len(serpApiKeys) = 0 THEN Null
    ELSE serpApiKeys[(serpKeyIndex % Len(serpApiKeys)) + 1]

\* the index after one call of getNextSerpKey
NextIndex == IF Len(serpApiKeys) = 0 THEN serpKeyIndex ELSE serpKeyIndex + 1

\* one call of getNextSerpKey: the rotation state and the log of results
getNextSerpKey ==
    /\ serpKeyIndex' = NextIndex
    /\ draws' = Append(draws, NextKey)

(* ------------------------- upstream data ------------------------------ *)
T0800 == <<"0", "8">>
T1100 == <<"1", "1">>

Leg(a, dep, arr) == [airline |-> a, departure_time |-> dep, arrival_time |-> arr]
Fare(legs, price) == [flights |-> legs, price |-> price]

\* the result lists (best_flights ++ other_flights) the upstream may return
Responses ==
    { << >>,
      << Fare(<<Leg(JetBlue, T0800, T1100)>>, 120),
         Fare(<<Leg(Delta, T0800, T1100)>>, 99) >>,
      << Fare(<<Leg(JetBlueAirways, T0800, Null), Leg(Delta, T0800, T1100)>>, 200),
         Fare(<<Leg(JetblueLower, T0800, T1100)>>, 50),
         Fare(<<Leg(JetBlue, Null, Null)>>, 200),
         Fare(<<Leg(JSX, T0800, T1100)>>, -5) >>,
      << Fare(<<Leg(JetBlue, T0800, T1100)>>, 0),
         Fare(<< >>, 80),
         Fare(<<Leg(Null, T0800, T1100)>>, 70) >> }

\* x || ''
OrEmpty(s) == IF Truthy(s) THEN s ELSE EmptyStr

\* flight.flights?.[0] || {}
FirstLeg(flight) ==
    IF Len(flight.flights) > 0 THEN flight.flights[1] ELSE Leg(Null, Null, Null)

\* Retained, were the carrier test left out
RetainedAnyAirline(flight) == flight.price # 0

\* the test guarding stmt.run: price && (airline.includes(...) || ...)
Retained(flight) ==
    LET airline == OrEmpty(FirstLeg(flight).airline)
    IN  flight.price # 0 /\ (Includes(airline, JetBlue) \/ Includes(airline, JSX))

\* the row stmt.run inserts for a retained flight
FlightRow(flight, origin, destination, dStr, scraped) ==
    LET leg == FirstLeg(flight)
    IN  [airline |-> OrEmpty(leg.airline),
         origin |-> origin,
         destination |-> destination,
         departure_date |-> dStr,
         price |-> flight.price,
         scraped_at |-> scraped,
         departure_time |-> OrEmpty(leg.departure_time),
         arrival_time |-> OrEmpty(leg.arrival_time),
         stops |-> (IF Len(flight.flights) = 0 THEN 1 ELSE Len(flight.flights)) - 1]

\* allFlights.forEach(...): the rows one response adds, in order
RECURSIVE SavedRows(_, _, _, _, _)
SavedRows(allFlights, origin, destination, dStr, scraped) ==
    IF allFlights = << >> THEN << >>
    ELSE (IF Retained(Head(allFlights))
          THEN <<FlightRow(Head(allFlights), origin, destination, dStr, scraped)>>
          ELSE << >>)
         \o SavedRows(Tail(allFlights), origin, destination, dStr, scraped)

(* --------------------- fetchRealFlightPrices -------------------------- *)
\* the request axios.get sends for the date at position i of the window,
\* tagged with the trigger that sends it and the position
Request(p, origin, destination, dates, i, apiKey) ==
    [by |-> p, idx |-> i, departure_id |-> origin, arrival_id |-> destination,
     outbound_date |-> dates[i], api_key |-> apiKey]

\* a call of fetchRealFlightPrices with a key available, up to its first
\* await: key drawn, codes upper-cased, window built, first request sent
StartFetch(p, origin, destination, baseDateStr, flexDays, leg, body) ==
    LET apiKey == NextKey
        o == ToUpperCase(origin)
        d == ToUpperCase(destination)
        dates == DatesToSearch(tz, baseDateStr, flexDays)
    IN  /\ getNextSerpKey
        /\ task' = [task EXCEPT ![p] =
                      [pc |-> "get", origin |-> o, destination |-> d,
                       apiKey |-> apiKey, datesToSearch |-> dates, idx |-> 1,
                       leg |-> leg, body |-> body]]
        /\ queries' = Append(queries, Request(p, o, d, dates, 1, apiKey))

OkRes == [status |-> 200, text |-> "Live search completed and prices stored."]
NoKeyRes == [status |-> 400, text |-> "No API key configured."]

\* EndFetch, were the return leg searched with the airports as posted
EndFetchNoSwap(p) ==
    IF p = "http" /\ task[p].leg = "out" /\ task[p].body.returnDate # NoDate
    THEN /\ StartFetch(p, task[p].body.origin, task[p].body.destination,
                       task[p].body.returnDate, task[p].body.flexDays,
                       "ret", task[p].body)
         /\ UNCHANGED res
    ELSE /\ task' = [task EXCEPT ![p] = Idle]
         /\ res' = IF p = "http" THEN OkRes ELSE res
         /\ UNCHANGED <<serpKeyIndex, draws, queries>>

\* fetchRealFlightPrices has returned to its caller: the search handler goes
\* on to the return leg or replies, the cron callback has nothing left to do
EndFetch(p) ==
    IF p = "http" /\ task[p].leg = "out" /\ task[p].body.returnDate # NoDate
    THEN /\ StartFetch(p, task[p].body.destination, task[p].body.origin,
                       task[p].body.returnDate, task[p].body.flexDays,
                       "ret", task[p].body)
         /\ UNCHANGED res
    ELSE /\ task' = [task EXCEPT ![p] = Idle]
         /\ res' = IF p = "http" THEN OkRes ELSE res
         /\ UNCHANGED <<serpKeyIndex, draws, queries>>

\* NextDate, were the key drawn again for every date of the window
NextDateRedraw(p) ==
    IF task[p].idx < Len(task[p].datesToSearch)
    THEN /\ getNextSerpKey
         /\ task' = [task EXCEPT ![p].idx = @ + 1, ![p].pc = "get",
                                 ![p].apiKey = NextKey]
         /\ queries' = Append(queries,
                Request(p, task[p].origin, task[p].destination,
                        task[p].datesToSearch, task[p].idx + 1, NextKey))
         /\ UNCHANGED res
    ELSE EndFetch(p)

\* the for loop moves on after the date at task[p].idx
NextDate(p) ==
    IF task[p].idx < Len(task[p].datesToSearch)
    THEN /\ task' = [task EXCEPT ![p].idx = @ + 1, ![p].pc = "get"]
         /\ queries' = Append(queries,
                Request(p, task[p].origin, task[p].destination,
                        task[p].datesToSearch, task[p].idx + 1, task[p].apiKey))
         /\ UNCHANGED <<serpKeyIndex, draws, res>>
    ELSE EndFetch(p)

\* UpstreamRespond, were a fare that is already stored not inserted again
UpstreamRespondOnce(p, allFlights) ==
    /\ task[p].pc = "get"
    /\ served < MaxQuota
    /\ served' = served + 1
    /\ db' = db \o SelectSeq(
                SavedRows(allFlights, task[p].origin, task[p].destination,
                          task[p].datesToSearch[task[p].idx], now),
                LAMBDA r : \A i \in 1..Len(db) : db[i] # r)
    /\ IF Len(task[p].datesToSearch) > 1
       THEN /\ task' = [task EXCEPT ![p].pc = "sleep"]
            /\ UNCHANGED <<serpKeyIndex, draws, queries, res>>
       ELSE NextDate(p)
    /\ out' = NoOut
    /\ UNCHANGED <<tz, now, serpApiKeys, console, triggers, seeds>>

\* UpstreamRespond, were the loop to go on to the next date at once
UpstreamRespondNoPause(p, allFlights) ==
    /\ task[p].pc = "get"
    /\ served < MaxQuota
    /\ served' = served + 1
    /\ db' = db \o SavedRows(allFlights, task[p].origin, task[p].destination,
                             task[p].datesToSearch[task[p].idx], now)
    /\ NextDate(p)
    /\ out' = NoOut
    /\ UNCHANGED <<tz, now, serpApiKeys, console, triggers, seeds>>

\* axios.get resolves with allFlights: the retained fares are inserted,
\* then the loop sleeps (window of several dates) or moves on
UpstreamRespond(p, allFlights) ==
    /\ task[p].pc = "get"
    /\ served < MaxQuota
    /\ served' = served + 1
    /\ db' = db \o SavedRows(allFlights, task[p].origin, task[p].destination,
                             task[p].datesToSearch[task[p].idx], now)
    /\ IF Len(task[p].datesToSearch) > 1
       THEN /\ task' = [task EXCEPT ![p].pc = "sleep"]
            /\ UNCHANGED <<serpKeyIndex, draws, queries, res>>
       ELSE NextDate(p)
    /\ out' = NoOut
    /\ UNCHANGED <<tz, now, serpApiKeys, console, triggers, seeds>>

\* UpstreamFail, were the rejection not caught: the handler's promise
\* rejects and the request is answered with an error
UpstreamFailThrows(p) ==
    /\ task[p].pc = "get"
    /\ console' = console \cup {"Error fetching real flight data:"}
    /\ task' = [task EXCEPT ![p] = Idle]
    /\ res' = IF p = "http" THEN [status |-> 500, text |-> "Internal Server Error"]
               ELSE res
    /\ out' = NoOut
    /\ UNCHANGED <<tz, now, serpApiKeys, serpKeyIndex, db, queries, draws,
                   served, triggers, seeds>>

\* axios.get rejects: the catch around the loop logs and the call returns
UpstreamFail(p) ==
    /\ task[p].pc = "get"
    /\ console' = console \cup {"Error fetching real flight data:"}
    /\ EndFetch(p)
    /\ out' = NoOut
    /\ UNCHANGED <<tz, now, serpApiKeys, db, served, triggers, seeds>>

\* the 500 ms timer fires
SleepDone(p) ==
    /\ task[p].pc = "sleep"
    /\ NextDate(p)
    /\ out' = NoOut
    /\ UNCHANGED <<tz, now, serpApiKeys, db, console, served, triggers, seeds>>

(* ----------------------------- triggers ------------------------------- *)
\* cron.schedule callback: fetchRealFlightPrices('JFK', 'MIA', '2024-04-12')
CronFire ==
    /\ task["cron"].pc = "idle"
    /\ triggers < MaxTriggers
    /\ triggers' = triggers + 1
    /\ IF NextKey = Null
       THEN /\ getNextSerpKey
            /\ console' = console \cup {"No SERPAPI_KEY found."}
            /\ UNCHANGED <<task, queries>>
       ELSE /\ StartFetch("cron", JFK, MIA, Apr12, 0, "out", NoBody)
            /\ UNCHANGED console
    /\ out' = NoOut
    /\ UNCHANGED <<tz, now, serpApiKeys, db, res, served, seeds>>

\* the bodies a client posts to /api/flights/search
Bodies ==
    [origin : {jfk, EmptyStr}, destination : {Mia}, date : {Mar10},
     returnDate : {NoDate, Apr12}, flexDays : 0..MaxFlex]

\* Search, were the check of serpApiKeys.length left out
SearchNoGuard(body) ==
    /\ task["http"].pc = "idle"
    /\ triggers < MaxTriggers
    /\ triggers' = triggers + 1
    /\ StartFetch("http", body.origin, body.destination, body.date,
                  body.flexDays, "out", body)
    /\ res' = NoRes
    /\ out' = NoOut
    /\ UNCHANGED <<tz, now, serpApiKeys, db, console, served, seeds>>

\* app.post('/api/flights/search')
Search(body) ==
    /\ task["http"].pc = "idle"
    /\ triggers < MaxTriggers
    /\ triggers' = triggers + 1
    /\ IF Len(serpApiKeys) = 0
       THEN /\ res' = NoKeyRes
            /\ UNCHANGED <<serpKeyIndex, draws, task, queries>>
       ELSE /\ StartFetch("http", body.origin, body.destination, body.date,
                          body.flexDays, "out", body)
            /\ res' = NoRes
    /\ out' = NoOut
    /\ UNCHANGED <<tz, now, serpApiKeys, db, console, served, seeds>>

(* ------------------------------- seed --------------------------------- *)
SeedRow(airline, price, scraped) ==
    [airline |-> airline, origin |-> JFK, destination |-> MIA,
     departure_date |-> Apr12, price |-> price, scraped_at |-> scraped,
     departure_time |-> Null, arrival_time |-> Null, stops |-> 0]

\* the two rows of loop index i (i runs from 7 down to 0)
SeedPair(i) ==
    LET dateStr == SetDate(tz, now, GetDate(tz, now) - i)
        baseJbPrice == 220 + (7 - i) * 15 - (IF i = 2 THEN 45 ELSE 0)
        baseJsxPrice == 450 + (7 - i) * 10 + (IF i = 1 THEN 50 ELSE 0)
    IN  << SeedRow(JetBlue, baseJbPrice, dateStr), SeedRow(JSX, baseJsxPrice, dateStr) >>

RECURSIVE SeedRows(_)
SeedRows(i) == IF i < 0 THEN << >> ELSE SeedPair(i) \o SeedRows(i - 1)

\* Seed, were the table emptied before the mock rows are inserted
SeedReset ==
    /\ seeds < MaxSeeds
    /\ seeds' = seeds + 1
    /\ db' = SeedRows(7)
    /\ out' = NoOut
    /\ UNCHANGED <<tz, now, serpApiKeys, serpKeyIndex, task, res, queries,
                   draws, console, served, triggers>>

\* app.get('/api/seed')
Seed ==
    /\ seeds < MaxSeeds
    /\ seeds' = seeds + 1
    /\ db' = db \o SeedRows(7)
    /\ out' = NoOut
    /\ UNCHANGED <<tz, now, serpApiKeys, serpKeyIndex, task, res, queries, draws, console, served, triggers>>

(* ---------------------------- queries ------------------------------- *)
\* the elements of s at the positions of first, in order
Pick(s, first) ==
    [k \in 1..Cardinality(first) |->
        s[CHOOSE i \in first : Cardinality({j \in first : j < i}) = k - 1]]

\* the first occurrence of each element of s, in order
Distinct(s) ==
    CHOOSE d \in
        {Pick(t, {i \in 1..Len(t) : \A j \in 1..(i - 1) : t[j] # t[i]}) : t \in {s}} :
        TRUE

\* the sort key of a row under an ordering: ORDER BY scraped_at ASC,
\* ORDER BY scraped_at DESC, or the comparator a[1].price - b[1].price
SortKey(r, order) ==
    CASE order = "scraped_at ASC" -> r.scraped_at
      [] order = "scraped_at DESC" -> 0 - r.scraped_at
      [] order = "price" -> r.price

\* the place of rows[i] once rows is sorted under an ordering: behind the
\* rows with a smaller key and behind the earlier rows with an equal key
\* (rowid order for SQL, a stable Array.sort for JS)
Place(rows, order, i) ==
    1 + Cardinality({j \in 1..Len(rows) :
            \/ SortKey(rows[j], order) < SortKey(rows[i], order)
            \/ SortKey(rows[j], order) = SortKey(rows[i], order) /\ j < i})

\* the rows of rs arranged by their places
Arrange(rs, order) ==
    CHOOSE sorted \in
        {[k \in 1..Len(rs) |-> rs[CHOOSE i \in 1..Len(rs) : place[i] = k]] :
            place \in {[i \in 1..Len(rs) |-> Place(rs, order, i)]}} : TRUE

\* rows sorted under an ordering
SortRows(rows, order) == CHOOSE sorted \in {Arrange(rs, order) : rs \in {rows}} : TRUE

\* Filtered, were one parameter enough to filter
FilteredEither(q) == Truthy(q.origin) \/ Truthy(q.destination)

\* if (origin && destination): both query parameters present and non-empty
Filtered(q) == Truthy(q.origin) /\ Truthy(q.destination)

\* Matches, were the columns compared with the parameters as given
MatchesExact(r, q) ==
    /\ r.origin = q.origin
    /\ r.destination = q.destination

\* WHERE UPPER(origin) = UPPER(?) AND UPPER(destination) = UPPER(?)
Matches(r, q) ==
    /\ ToUpperCase(r.origin) = ToUpperCase(q.origin)
    /\ ToUpperCase(r.destination) = ToUpperCase(q.destination)

Selected(q) ==
    IF Filtered(q) THEN SelectSeq(db, LAMBDA r : Matches(r, q)) ELSE db

\* QueryHistory, were the ORDER BY clause left out (rowid order)
QueryHistoryUnsorted(q) == Selected(q)

\* the SELECT of /api/flights/history
QueryHistory(q) == SortRows(Selected(q), "scraped_at ASC")

\* LIMIT 100 of /api/insights
Limit == 100

\* QueryRecent, were the LIMIT clause left out
QueryRecentAll(q) == SortRows(Selected(q), "scraped_at DESC")

\* the SELECT of /api/insights
QueryRecent(q) ==
    LET rows == SortRows(Selected(q), "scraped_at DESC")
    IN  SubSeq(rows, 1, IF Len(rows) < Limit THEN Len(rows) ELSE Limit)

\* the req.query values a client sends to the read endpoints
NoQuery == [origin |-> Null, destination |-> Null]
Queries == {NoQuery, [origin |-> jfk, destination |-> MIA]}

\* History, were the handler to take a key from the rotation
HistoryDraws(q) ==
    /\ out' = [kind |-> "history", query |-> q, body |-> QueryHistory(q)]
    /\ getNextSerpKey
    /\ UNCHANGED <<tz, now, serpApiKeys, db, task, res, queries,
                   console, served, triggers, seeds>>

\* app.get('/api/flights/history')
History(q) ==
    /\ out' = [kind |-> "history", query |-> q, body |-> QueryHistory(q)]
    /\ UNCHANGED <<tz, now, serpApiKeys, serpKeyIndex, db, task, res, queries,
                   draws, console, served, triggers, seeds>>

(* ---------------------------- insights ------------------------------- *)
\* the prices of flights[lo..hi] added up
RECURSIVE SumRange(_, _, _)
SumRange(flights, lo, hi) ==
    IF lo > hi THEN 0
    ELSE IF lo = hi THEN flights[lo].price
    ELSE SumRange(flights, lo, (lo + hi) \div 2)
         + SumRange(flights, (lo + hi) \div 2 + 1, hi)

\* prices.reduce((a, b) => a + b, 0)
SumPrices(flights) == SumRange(flights, 1, Len(flights))

\* MinPrice, were the highest price taken
MinPriceHighest(flights) ==
    CHOOSE m \in {flights[i].price : i \in 1..Len(flights)} :
        \A i \in 1..Len(flights) : m >= flights[i].price

\* Math.min(...prices)
MinPrice(flights) ==
    CHOOSE m \in {flights[i].price : i \in 1..Len(flights)} :
        \A i \in 1..Len(flights) : m <= flights[i].price

\* Math.round(sum / n): the nearest integer, halves upward
RoundDiv(sum, n) == (2 * sum + n) \div (2 * n)

\* FindPrice, were the last flight at that price taken
FindPriceLast(flights, minPrice) ==
    flights[CHOOSE i \in 1..Len(flights) :
                /\ flights[i].price = minPrice
                /\ \A j \in (i + 1)..Len(flights) : flights[j].price # minPrice]

\* flights.find(f => f.price === minPrice)
FindPrice(flights, minPrice) ==
    flights[CHOOSE i \in 1..Len(flights) :
                /\ flights[i].price = minPrice
                /\ \A j \in 1..(i - 1) : flights[j].price # minPrice]

\* byAirline[airline]
ByAirline(rows, airline) == SelectSeq(rows, LAMBDA r : r.airline = airline)

\* Object.keys(byAirline): airlines in order of first appearance
Airlines(rows) == Distinct([i \in 1..Len(rows) |-> rows[i].airline])

\* the flightDetail string, by its parts
FlightDetail(cheapest) ==
    IF Truthy(cheapest.departure_time) /\ Truthy(cheapest.arrival_time)
    THEN [dep |-> cheapest.departure_time, arr |-> cheapest.arrival_time,
          stops |-> cheapest.stops]
    ELSE [dep |-> EmptyStr, arr |-> EmptyStr, stops |-> 0]

\* Math.round((1 - minPrice / avgPrice) * 100), the percentage a Strong Buy
\* cites, as the set of values the double arithmetic can give: the nearest
\* integer, and at an exact half also the integer below (the quotient may
\* fall just under .5); no integer when avgPrice is 0
PctBelow(minPrice, avgPrice) ==
    LET n == IF avgPrice > 0 THEN 100 * (avgPrice - minPrice)
             ELSE 100 * (minPrice - avgPrice)
        d == IF avgPrice > 0 THEN avgPrice ELSE 0 - avgPrice
        nearest == (2 * n + d) \div (2 * d)
    IN  IF avgPrice = 0 THEN {}
        ELSE IF (2 * n) % (2 * d) = d THEN {nearest - 1, nearest}
        ELSE {nearest}

\* BestInsight, were the lower band compared with <=
BestInsightInclusive(rows, airline, id) ==
    LET flights == ByAirline(rows, airline)
        minPrice == MinPrice(flights)
        avgPrice == RoundDiv(SumPrices(flights), Len(flights))
        cheapest == FindPrice(flights, minPrice)
        strong == 10 * minPrice <= 9 * avgPrice
        wait == ~strong /\ 10 * minPrice > 11 * avgPrice
    IN  [id |-> id,
         type |-> IF wait THEN "wait" ELSE "buy",
         title |-> IF strong THEN "Strong Buy Recommendation"
                   ELSE IF wait THEN "Hold / Wait" ELSE "Best Price Found",
         airline |-> airline,
         price |-> minPrice,
         avg |-> avgPrice,
         pct |-> IF strong THEN PctBelow(minPrice, avgPrice) ELSE {},
         savings |-> 0,
         date |-> cheapest.departure_date,
         otherDate |-> NoDate,
         route |-> <<cheapest.origin, cheapest.destination>>,
         flightDetail |-> FlightDetail(cheapest)]

\* the insight of the first airlines.forEach for one airline. Prices are
\* whole dollars: the 10% bands minPrice < avgPrice * 0.9 and
\* minPrice > avgPrice * 1.1 are compared in integers, which agrees with the
\* double products wherever the second test is reached (avgPrice >= 0)
BestInsight(rows, airline, id) ==
    LET flights == ByAirline(rows, airline)
        minPrice == MinPrice(flights)
        avgPrice == RoundDiv(SumPrices(flights), Len(flights))
        cheapest == FindPrice(flights, minPrice)
        strong == 10 * minPrice < 9 * avgPrice
        wait == ~strong /\ 10 * minPrice > 11 * avgPrice
    IN  [id |-> id,
         type |-> IF wait THEN "wait" ELSE "buy",
         title |-> IF strong THEN "Strong Buy Recommendation"
                   ELSE IF wait THEN "Hold / Wait" ELSE "Best Price Found",
         airline |-> airline,
         price |-> minPrice,
         avg |-> avgPrice,
         pct |-> IF strong THEN PctBelow(minPrice, avgPrice) ELSE {},
         savings |-> 0,
         date |-> cheapest.departure_date,
         otherDate |-> NoDate,
         route |-> <<cheapest.origin, cheapest.destination>>,
         flightDetail |-> FlightDetail(cheapest)]

\* cheapestByDate as Object.entries lists it: per departure date, in order of
\* first appearance, the first flight with the lowest price of that date
CheapestByDate(flights) ==
    LET dates == Distinct([i \in 1..Len(flights) |-> flights[i].departure_date])
        onDate(d) == SelectSeq(flights, LAMBDA f : f.departure_date = d)
    IN  [k \in 1..Len(dates) |-> FindPrice(onDate(dates[k]), MinPrice(onDate(dates[k])))]

\* FlexInsight, were a saving of exactly $20 enough
FlexInsightAtLeast(rows, airline, id) ==
    LET flights == ByAirline(rows, airline)
        uniqueDates == SelectSeq(
            Distinct([i \in 1..Len(flights) |-> flights[i].departure_date]),
            LAMBDA d : d # NoDate)
        dates == SortRows(CheapestByDate(flights), "price")
        cheapest == dates[1]
        mostExpensive == dates[Len(dates)]
        savings == mostExpensive.price - cheapest.price
    IN  IF Len(uniqueDates) <= 1 THEN << >>
        ELSE IF cheapest.departure_date # mostExpensive.departure_date /\ savings >= 20
        THEN << [id |-> id,
                 type |-> "flex",
                 title |-> "Cheaper Date",
                 airline |-> airline,
                 price |-> cheapest.price,
                 avg |-> mostExpensive.price,
                 pct |-> {},
                 savings |-> savings,
                 date |-> cheapest.departure_date,
                 otherDate |-> mostExpensive.departure_date,
                 route |-> << >>,
                 flightDetail |-> [dep |-> EmptyStr, arr |-> EmptyStr, stops |-> 0]] >>
        ELSE << >>

\* FlexInsight, were the flights compared without regard to their dates
FlexInsightAnyDate(rows, airline, id) ==
    LET flights == ByAirline(rows, airline)
        dates == SortRows(flights, "price")
        cheapest == dates[1]
        mostExpensive == dates[Len(dates)]
        savings == mostExpensive.price - cheapest.price
    IN  IF savings > 20
        THEN << [id |-> id,
                 type |-> "flex",
                 title |-> "Cheaper Date",
                 airline |-> airline,
                 price |-> cheapest.price,
                 avg |-> mostExpensive.price,
                 pct |-> {},
                 savings |-> savings,
                 date |-> cheapest.departure_date,
                 otherDate |-> mostExpensive.departure_date,
                 route |-> << >>,
                 flightDetail |-> [dep |-> EmptyStr, arr |-> EmptyStr, stops |-> 0]] >>
        ELSE << >>

\* the second airlines.forEach for one airline: the flex insight, if any
FlexInsight(rows, airline, id) ==
    LET flights == ByAirline(rows, airline)
        uniqueDates == SelectSeq(
            Distinct([i \in 1..Len(flights) |-> flights[i].departure_date]),
            LAMBDA d : d # NoDate)
        dates == SortRows(CheapestByDate(flights), "price")
        cheapest == dates[1]
        mostExpensive == dates[Len(dates)]
        savings == mostExpensive.price - cheapest.price
    IN  IF Len(uniqueDates) <= 1 THEN << >>
        ELSE IF cheapest.departure_date # mostExpensive.departure_date /\ savings > 20
        THEN << [id |-> id,
                 type |-> "flex",
                 title |-> "Cheaper Date",
                 airline |-> airline,
                 price |-> cheapest.price,
                 avg |-> mostExpensive.price,
                 pct |-> {},
                 savings |-> savings,
                 date |-> cheapest.departure_date,
                 otherDate |-> mostExpensive.departure_date,
                 route |-> << >>,
                 flightDetail |-> [dep |-> EmptyStr, arr |-> EmptyStr, stops |-> 0]] >>
        ELSE << >>

\* the second airlines.forEach from airline k on; acc holds the flex insights
\* pushed so far, idCounter having counted every insight pushed before
RECURSIVE FlexInsights(_, _, _, _)
FlexInsights(rows, airlines, k, acc) ==
    IF k > Len(airlines) THEN acc
    ELSE FlexInsights(rows, airlines, k + 1,
            acc \o FlexInsight(rows, airlines[k], Len(airlines) + Len(acc) + 1))

\* DeriveInsights, were a best-price insight built for every row
DeriveInsightsPerRow(rows) ==
    LET airlines == Airlines(rows)
        best == [k \in 1..Len(rows) |-> BestInsight(rows, rows[k].airline, k)]
    IN  IF Len(rows) = 0 THEN << >>
        ELSE best \o FlexInsights(rows, airlines, 1, << >>)

\* DeriveInsights, were idCounter read without being incremented in the
\* first loop
DeriveInsightsNoCount(rows) ==
    LET airlines == Airlines(rows)
        best == [k \in 1..Len(airlines) |-> BestInsight(rows, airlines[k], 1)]
    IN  IF Len(rows) = 0 THEN << >>
        ELSE best \o FlexInsights(rows, airlines, 1, << >>)

\* the insights array the handler builds from the selected rows
DeriveInsights(rows) ==
    LET airlines == Airlines(rows)
        best == [k \in 1..Len(airlines) |-> BestInsight(rows, airlines[k], k)]
    IN  IF Len(rows) = 0 THEN << >>
        ELSE best \o FlexInsights(rows, airlines, 1, << >>)

\* app.get('/api/insights')
Insights(q) ==
    /\ \E rows \in {QueryRecent(q)} :
          out' = [kind |-> "insights", query |-> q, body |-> DeriveInsights(rows)]
    /\ UNCHANGED <<tz, now, serpApiKeys, serpKeyIndex, db, task, res, queries,
                   draws, console, served, triggers, seeds>>

\* the write side: both fetch triggers, the upstream's answers, the seed
Next ==
    \/ CronFire
    \/ \E body \in Bodies : Search(body)
    \/ \E p \in Procs, allFlights \in Responses : UpstreamRespond(p, allFlights)
    \/ \E p \in Procs : UpstreamFail(p)
    \/ \E p \in Procs : SleepDone(p)
    \/ Seed

Spec == Init /\ [][Next]_vars

\* the read endpoints, interleaved with searches and seeds on a host with
\* both keys configured
ReadBodies ==
    [origin : {jfk}, destination : {Mia}, date : {Mar10},
     returnDate : {NoDate, Apr12}, flexDays : 0..MaxFlex]

InitReads == InitIn({ZoneUTC}, {<<Key1, Key2>>})

NextReads ==
    \/ \E body \in ReadBodies : Search(body)
    \/ \E allFlights \in Responses : UpstreamRespond("http", allFlights)
    \/ UpstreamFail("http")
    \/ SleepDone("http")
    \/ Seed
    \/ \E q \in Queries : History(q)
    \/ \E q \in Queries : Insights(q)

SpecReads == InitReads /\ [][NextReads]_vars

\* the date window alone: searches over more base dates and flexDays, on
\* hosts in either time zone; every request fails at once
MaxWindowFlex == 2

WindowBodies ==
    [origin : {jfk}, destination : {Mia},
     date : {[m |-> 3, d |-> 1], [m |-> 3, d |-> 9], Mar10, [m |-> 3, d |-> 31], Apr12},
     returnDate : {NoDate}, flexDays : (-1)..MaxWindowFlex]

InitDates == InitIn(Zones, {<<Key1, Key2>>})

NextDates ==
    \/ \E body \in WindowBodies : Search(body)
    \/ UpstreamFail("http")

SpecDates == InitDates /\ [][NextDates]_vars

\* the insights endpoint alone, on the tables a database file may hold when
\* the server starts: rows stored by fetches of earlier runs
Stored(airline, dStr, price, scraped) ==
    [airline |-> airline, origin |-> JFK, destination |-> MIA,
     departure_date |-> dStr, price |-> price, scraped_at |-> scraped,
     departure_time |-> T0800, arrival_time |-> T1100, stops |-> 0]

Mar9 == [m |-> 3, d |-> 9]

\* whole-dollar prices 20 and 30 apart, the lowest more than 10% below the
\* mean of some groups and not of others
Prices == {80, 100, 110}

ObsKinds == [airline : {JetBlue, JSX}, date : {Mar10, Apr12}, price : Prices]

\* the table of n rows of the kinds f[1], ..., f[n], scraped one hour apart
\* in rowid order
TableOf(n, f) ==
    [k \in 1..n |-> Stored(f[k].airline, f[k].date, f[k].price, NowStart - 48 + k)]

\* rows of one airline and date with the given prices, scraped from hour t on
Group(airline, dStr, prices, t) ==
    [k \in 1..Len(prices) |-> Stored(airline, dStr, prices[k], t + k)]

ExampleTables ==
    { Group(JetBlue, Apr12, <<200, 200, 200, 80>>, NowStart - 48)
          \o Group(JSX, Apr12, <<90, 110, 100>>, NowStart - 40),
      Group(JetBlue, Mar10, <<100>>, NowStart - 48)
          \o Group(JetBlue, Apr12, <<200>>, NowStart - 40),
      Group(JSX, Mar9, <<100, 95>>, NowStart - 48)
          \o Group(JSX, Mar10, <<150>>, NowStart - 40)
          \o Group(JSX, Apr12, <<130, 70>>, NowStart - 30)
          \o Group(JSX, Mar9, <<500>>, NowStart - 20),
      Group(JSX, Apr12, <<0 - 5>>, NowStart - 48) }

\* n rows scraped one hour apart, the last of them at NowStart
Recent(n) ==
    [k \in 1..n |-> Stored(JetBlue, Apr12, 110 + (k % 3), NowStart - n + k)]

\* rows scraped before every row of Recent
OldRows ==
    { Stored(JetBlue, Mar10, 80, NowStart - 300),
      Stored(JSX, Mar10, 450, NowStart - 300) }

\* tables around the LIMIT of the insights query
LongTables ==
    {<<old>> \o Recent(n) : old \in OldRows, n \in {Limit - 1, Limit}}
    \cup {Recent(Limit) \o <<old>> : old \in OldRows}

\* the server starts on any table of at most MaxRows rows of those kinds, or
\* on one of the tables above
InitInsights ==
    \/ \E n \in 0..MaxRows : \E f \in [1..n -> ObsKinds] :
          InitWith({ZoneUTC}, {<<Key1, Key2>>}, {TableOf(n, f)})
    \/ InitWith({ZoneUTC}, {<<Key1, Key2>>}, ExampleTables \cup LongTables)

NextInsights == \E q \in Queries : Insights(q)

SpecInsights == InitInsights /\ [][NextInsights]_vars

\* a scheduled run and a search for the scheduled route and date, free to
\* overlap, on a host with both keys configured
OverlapBodies ==
    [origin : {jfk}, destination : {Mia}, date : {Apr12},
     returnDate : {NoDate, Apr12}, flexDays : 0..MaxFlex]

\* the result list the upstream returns for every request of that route
OverlapAnswer ==
    << Fare(<<Leg(JetBlue, T0800, T1100)>>, 120),
       Fare(<<Leg(Delta, T0800, T1100)>>, 99) >>

NextOverlap ==
    \/ CronFire
    \/ \E body \in OverlapBodies : Search(body)
    \/ \E p \in Procs : UpstreamRespond(p, OverlapAnswer)
    \/ \E p \in Procs : UpstreamFail(p)
    \/ \E p \in Procs : SleepDone(p)

SpecOverlap == InitReads /\ [][NextOverlap]_vars

(* ----------------------------- dashboard ------------------------------ *)
\* the dashboard (src/unnamed/part_000): fetchData asks the server for the
\* history and the insights of the outbound and of the return route and
\* merges the answers

\* the offset fetchData adds to the ids of the return leg
IdOffset == 100

\* the key of the chart series a flight belongs to
SeriesOf(flight) == IF flight.airline = JetBlue THEN "jetblue" ELSE "jsx"

\* the lowest price of a series on a departure date, 0 where the series has
\* no flight on that date (a stored 0 is replaced like a missing value)
SeriesLow(outFlights, d, key) ==
    LET I == {i \in 1..Len(outFlights) :
                 /\ outFlights[i].departure_date = d
                 /\ SeriesOf(outFlights[i]) = key
                 /\ outFlights[i].price # 0}
    IN  IF I = {} THEN 0
        ELSE CHOOSE m \in {outFlights[i].price : i \in I} :
                 \A i \in I : m <= outFlights[i].price

\* dates of 2024 in the order of localeCompare on 'YYYY-MM-DD'
DateBefore(a, b) == a.m < b.m \/ (a.m = b.m /\ a.d < b.d)

\* Object.values(chartDataMap).sort(...): one point per departure date of the
\* outbound history, in date order
ChartData(outFlights) ==
    LET D == {outFlights[i].departure_date : i \in 1..Len(outFlights)}
    IN  [k \in 1..Cardinality(D) |->
            LET d == CHOOSE x \in D : Cardinality({y \in D : DateBefore(y, x)}) = k - 1
            IN  [date |-> d,
                 jetblue |-> SeriesLow(outFlights, d, "jetblue"),
                 jsx |-> SeriesLow(outFlights, d, "jsx")]]

\* an insight tagged with its leg, its id moved by shift
Tagged(insight, leg, shift) ==
    [id |-> insight.id + shift, leg |-> leg, type |-> insight.type,
     airline |-> insight.airline, price |-> insight.price]

\* Merged, were the ids of the return leg moved by 1
MergedByOne(outInsights, retInsights) ==
    [k \in 1..Len(outInsights) |-> Tagged(outInsights[k], "outbound", 0)]
    \o [k \in 1..Len(retInsights) |-> Tagged(retInsights[k], "return", 1)]

\* [...outInsights, ...retInsights] after the two forEach that tag the legs
Merged(outInsights, retInsights) ==
    [k \in 1..Len(outInsights) |-> Tagged(outInsights[k], "outbound", 0)]
    \o [k \in 1..Len(retInsights) |-> Tagged(retInsights[k], "return", IdOffset)]

\* fetchData for the route the dashboard shows; no write reaches the server
\* between its four requests
FetchData(q) ==
    /\ \E qr \in {[origin |-> q.destination, destination |-> q.origin]} :
          out' = [kind |-> "dashboard", query |-> q,
                  body |-> Merged(DeriveInsights(QueryRecent(q)),
                                  DeriveInsights(QueryRecent(qr))),
                  chart |-> ChartData(QueryHistory(q))]
    /\ UNCHANGED <<tz, now, serpApiKeys, serpKeyIndex, db, task, res, queries,
                   draws, console, served, triggers, seeds>>

\* rows of the route and of its reverse, of either airline, cheap on one date
\* and dearer on the other
LegKinds ==
    [back : BOOLEAN, airline : {JetBlue, JSX},
     fare : {[date |-> Mar10, price |-> 80], [date |-> Apr12, price |-> 110]}]

LegTableOf(n, f) ==
    [k \in 1..n |->
        [Stored(f[k].airline, f[k].fare.date, f[k].fare.price, NowStart - 48 + k)
            EXCEPT !.origin = IF f[k].back THEN MIA ELSE JFK,
                   !.destination = IF f[k].back THEN JFK ELSE MIA]]

\* the routes entered in the dashboard
DashRoutes == {[origin |-> JFK, destination |-> MIA], [origin |-> Mia, destination |-> jfk]}

\* the server starts on a table of at most MaxRows rows of those kinds or on
\* one of the long tables, and the dashboard and the insights endpoint are
\* queried
InitDashboard ==
    \/ \E n \in 0..MaxRows : \E f \in [1..n -> LegKinds] :
          InitWith({ZoneUTC}, {<<Key1, Key2>>}, {LegTableOf(n, f)})
    \/ InitWith({ZoneUTC}, {<<Key1, Key2>>}, LongTables)

NextDashboard ==
    \/ \E q \in DashRoutes : FetchData(q)
    \/ \E q \in Queries : Insights(q)

SpecDashboard == InitDashboard /\ [][NextDashboard]_vars

\* searches whose date field is the empty string, next to dated ones, seeds
\* and insight queries, on a host with both keys configured
EmptyDateBodies ==
    [origin : {jfk}, destination : {Mia}, date : {NoDate, Mar10},
     returnDate : {NoDate}, flexDays : {0}]

NextEmptyDate ==
    \/ \E body \in EmptyDateBodies : Search(body)
    \/ \E allFlights \in Responses : UpstreamRespond("http", allFlights)
    \/ UpstreamFail("http")
    \/ Seed
    \/ \E q \in Queries : Insights(q)

SpecEmptyDate == InitReads /\ [][NextEmptyDate]_vars

\* the read endpoints queried with both, with one and with none of origin
\* and destination, after round-trip searches and seeds
FilterBodies ==
    [origin : {jfk}, destination : {Mia}, date : {Mar10},
     returnDate : {NoDate, Apr12}, flexDays : {0}]

OneSided == {[origin |-> jfk, destination |-> Null],
             [origin |-> EmptyStr, destination |-> MIA]}

NextFilter ==
    \/ \E body \in FilterBodies : Search(body)
    \/ UpstreamRespond("http", OverlapAnswer)
    \/ UpstreamFail("http")
    \/ Seed
    \/ \E q \in Queries \cup OneSided : History(q)
    \/ \E q \in Queries \cup OneSided : Insights(q)

SpecFilter == InitReads /\ [][NextFilter]_vars

(* ------------------------ requests of any shape ----------------------- *)
\* a JSON null in the place of a string
JsNull == <<"<js null>">>

\* the value has the method toUpperCase
IsString(s) == s # JsNull

\* the answer of the framework's error handler
ErrRes == [status |-> 500, text |-> "Internal Server Error"]

\* app.post('/api/flights/search') for bodies whose origin or destination may
\* be null: a null is no undefined, so the default parameter does not apply
\* and origin.toUpperCase() throws after the key was drawn and outside the
\* try block. The handler's promise rejects; what becomes of the request is
\* the framework's doing: Express 5 answers 500, Express 4 never answers
SearchAny(body) ==
    IF IsString(body.origin) /\ IsString(body.destination)
    THEN Search(body)
    ELSE /\ task["http"].pc = "idle"
         /\ triggers < MaxTriggers
         /\ triggers' = triggers + 1
         /\ IF Len(serpApiKeys) = 0
            THEN /\ res' = NoKeyRes
                 /\ UNCHANGED <<serpKeyIndex, draws>>
            ELSE /\ getNextSerpKey
                 /\ res' \in {NoRes, ErrRes}
         /\ out' = NoOut
         /\ UNCHANGED <<tz, now, serpApiKeys, db, task, queries, console,
                        served, seeds>>

AnyBodies ==
    [origin : {jfk, JsNull}, destination : {Mia}, date : {Mar10},
     returnDate : {NoDate, Apr12}, flexDays : 0..MaxFlex]

\* a step of the upstream or of the pacing timer for the search under way
Progress ==
    \/ UpstreamRespond("http", OverlapAnswer)
    \/ UpstreamFail("http")
    \/ SleepDone("http")

NextLive ==
    \/ \E body \in AnyBodies : SearchAny(body)
    \/ UpstreamRespond("http", OverlapAnswer)
    \/ UpstreamFail("http")
    \/ SleepDone("http")

\* searches on a host with both keys configured; every upstream request is
\* answered or rejected in the end and every timer fires
SpecLive == InitReads /\ [][NextLive]_vars /\ WF_vars(Progress)

(* ------------------------------ claims -------------------------------- *)
\* the call of fetchRealFlightPrices that trigger p runs returns in this step
FetchReturns(p) ==
    /\ task[p].pc # "idle"
    /\ task'[p].pc = "idle" \/ task'[p].leg # task[p].leg

\* C1: a failing date does not abort the rest of the window: whenever a call
\* of fetchRealFlightPrices returns, every date of its window has been
\* queried (the request for the last date has been sent).
C1_EveryDateQueried ==
    [][\A p \in Procs :
          FetchReturns(p) => task[p].idx = Len(task[p].datesToSearch)]_vars

\* the positions of the log at which a window starts
WindowStarts == {i \in 1..Len(queries) : queries[i].idx = 1}

\* the request trigger p sent just before the one at position i
PrevBy(i) ==
    CHOOSE j \in 1..(i - 1) :
        /\ queries[j].by = queries[i].by
        /\ \A k \in (j + 1)..(i - 1) : queries[k].by # queries[i].by

\* C2 as stated: one draw from the rotation per candidate date, so that with
\* keys configured there are as many draws as upstream requests.
C2_DrawPerDate ==
    Len(serpApiKeys) > 0 => Len(draws) = Len(queries)

\* C2 amended: one draw per call of fetchRealFlightPrices, made before the
\* window is built: with keys configured there are as many draws as windows
\* started, the j-th window is queried with key (j-1) mod n, and every later
\* date of a window is queried with the key of the date before it.
C2_OneDrawPerFetch ==
    Len(serpApiKeys) > 0 =>
        /\ Len(draws) = Cardinality(WindowStarts)
        /\ \A i \in 1..Len(queries) :
              IF queries[i].idx = 1
              THEN queries[i].api_key =
                       serpApiKeys[((Cardinality({j \in WindowStarts : j < i}))
                                    % Len(serpApiKeys)) + 1]
              ELSE /\ queries[PrevBy(i)].idx = queries[i].idx - 1
                   /\ queries[PrevBy(i)].api_key = queries[i].api_key

\* two keys configured and a window of which the second date has been queried
C2_Witness ==
    /\ Len(serpApiKeys) = 2
    /\ \E i \in 1..Len(queries) : queries[i].idx = 2

\* C3: in an insights response every flex insight precedes every best-price
\* (buy/wait) insight.
C3_FlexFirst ==
    out.kind = "insights" =>
        \A i, j \in 1..Len(out.body) :
            (out.body[i].type = "flex" /\ out.body[j].type # "flex") => i < j

\* C4: every stored row has a positive price and a non-empty airline, origin
\* and destination.
C4_ValidRows ==
    \A i \in 1..Len(db) :
        /\ db[i].price > 0
        /\ db[i].airline # EmptyStr
        /\ db[i].origin # EmptyStr
        /\ db[i].destination # EmptyStr

\* C5: getNextSerpKey is round-robin over all its callers: with n >= 1 keys
\* the j-th call (from 0) returned key j mod n and the index counts the
\* calls; with no key every call returned null and the index stayed 0.
C5_RoundRobin ==
    IF Len(serpApiKeys) = 0
    THEN /\ serpKeyIndex = 0
         /\ \A j \in 1..Len(draws) : draws[j] = Null
    ELSE /\ serpKeyIndex = Len(draws)
         /\ \A j \in 1..Len(draws) :
               draws[j] = serpApiKeys[((j - 1) % Len(serpApiKeys)) + 1]

\* two keys, three draws (the rotation has wrapped), made by a scheduled and
\* an on-demand fetch
C5_Witness ==
    /\ Len(serpApiKeys) = 2
    /\ Len(draws) = 3
    /\ \E i, j \in 1..Len(queries) : queries[i].by = "cron" /\ queries[j].by = "http"

\* C6: the table is append-only: every step of a fetch, a seed, a history
\* query or an insight query leaves the rows present before it in place and
\* unchanged.
C6_AppendOnly ==
    [][Len(db') >= Len(db) /\ SubSeq(db', 1, Len(db)) = db]_vars

\* a row written by fetchRealFlightPrices (the seed leaves the times NULL)
FetchRow(r) == r.departure_time # Null

\* seeded rows and fetched rows in the table, and a read just answered
C6_Witness ==
    /\ out.kind # "none"
    /\ \E i, j \in 1..Len(db) : FetchRow(db[i]) /\ ~FetchRow(db[j])

\* C7: every row a fetch has written carries an airline that contains
\* 'JetBlue' or 'JSX'; fares of other carriers are never stored.
C7_OnlyTracked ==
    \A i \in 1..Len(db) :
        FetchRow(db[i]) =>
            Includes(db[i].airline, JetBlue) \/ Includes(db[i].airline, JSX)

\* the answer that carries JetBlue at 120 next to Delta at 99 was stored
C7_Witness ==
    \E i \in 1..Len(db) : db[i].airline = JetBlue /\ db[i].price = 120

\* the airport codes trigger p passed to its running call, as given
LegOrigin(p) ==
    IF p = "cron" THEN JFK
    ELSE IF task[p].leg = "out" THEN task[p].body.origin
         ELSE task[p].body.destination

LegDestination(p) ==
    IF p = "cron" THEN MIA
    ELSE IF task[p].leg = "out" THEN task[p].body.destination
         ELSE task[p].body.origin

\* spellings of airport codes a client may use in a history query
Spellings == {JFK, jfk, MIA, Mia}

InRows(r, rows) == \E k \in 1..Len(rows) : rows[k] = r

\* C8: the rows a fetch stores carry the upper-cased form of the codes it was
\* given; a history query for the route of a stored row, in any spelling,
\* returns that row; and every history response holds all rows of the route
\* it asked for.
C8_UpperCasedAndFound ==
    /\ [][\A p \in Procs :
             (task[p].pc = "get" /\ task'[p] # task[p] /\ served' > served) =>
                 \A i \in (Len(db) + 1)..Len(db') :
                     /\ db'[i].origin = ToUpperCase(LegOrigin(p))
                     /\ db'[i].destination = ToUpperCase(LegDestination(p))]_vars
    /\ [](/\ \A o, d \in Spellings :
                (\E i \in 1..Len(db) :
                    /\ FetchRow(db[i])
                    /\ db[i].origin = ToUpperCase(o)
                    /\ db[i].destination = ToUpperCase(d))
                => \A rows \in {QueryHistory([origin |-> o, destination |-> d])} :
                       \A i \in 1..Len(db) :
                           (/\ FetchRow(db[i])
                            /\ db[i].origin = ToUpperCase(o)
                            /\ db[i].destination = ToUpperCase(d))
                           => InRows(db[i], rows)
          /\ out.kind = "history" =>
                \A i \in 1..Len(db) :
                    (/\ ToUpperCase(db[i].origin) = ToUpperCase(out.query.origin)
                     /\ ToUpperCase(db[i].destination) = ToUpperCase(out.query.destination))
                    => InRows(db[i], out.body))

\* a history query spelled jfk/MIA answered with a row a fetch stored
C8_Witness ==
    /\ out.kind = "history"
    /\ out.query = [origin |-> jfk, destination |-> MIA]
    /\ \E k \in 1..Len(out.body) : FetchRow(out.body[k])

\* base-1, base+1, ..., base-flexDays, base+flexDays on the calendar
RECURSIVE Around(_, _, _)
Around(base, i, flexDays) ==
    IF i > flexDays THEN << >>
    ELSE <<PlusDays(base, -i), PlusDays(base, i)>> \o Around(base, i + 1, flexDays)

\* C9: the window of a search is base, base-1, base+1, ..., base-flexDays,
\* base+flexDays (2*flexDays+1 distinct dates), and just the base date for
\* flexDays <= 0.
C9_Window ==
    (task["http"].pc # "idle" /\ task["http"].leg = "out") =>
        task["http"].datesToSearch =
            <<task["http"].body.date>>
            \o Around(task["http"].body.date, 1, task["http"].body.flexDays)

\* C10: with no key configured a trigger sends no upstream request and
\* stores no row; a search is answered 400 'No API key configured.' and a
\* scheduled run logs 'No SERPAPI_KEY found.'
C10_NotConfigured ==
    Len(serpApiKeys) = 0 =>
        /\ queries = << >>
        /\ \A p \in Procs : task[p].pc = "idle"
        /\ \A i \in 1..Len(db) : ~FetchRow(db[i])
        /\ res \in {NoRes, NoKeyRes}
        /\ triggers > Len(draws) => res = NoKeyRes
        /\ Len(draws) > 0 => "No SERPAPI_KEY found." \in console

\* no key configured, a search refused and a scheduled run skipped
C10_Witness ==
    /\ Len(serpApiKeys) = 0
    /\ res = NoKeyRes
    /\ "No SERPAPI_KEY found." \in console

\* the step in which a request of trigger p is rejected by the upstream
FailStep(p) ==
    /\ task[p].pc = "get"
    /\ task'[p] # task[p]
    /\ served' = served

\* C11: a rejected upstream request leaves every stored row in place, and a
\* search made with a key configured is answered with the success message
\* once its handler has finished, whether or not requests of its windows
\* were rejected.
C11_PartialSuccess ==
    /\ [][\A p \in Procs :
             FailStep(p) =>
                 /\ db' = db
                 /\ (p = "http" /\ task'[p].pc = "idle") => res' = OkRes]_vars
    /\ []((/\ Len(serpApiKeys) > 0
           /\ task["http"].pc = "idle"
           /\ \E i \in 1..Len(queries) : queries[i].by = "http")
          => res = OkRes)

\* a search over a window of three dates: the first date answered with fares
\* that were stored, the second rejected, the search answered with success
C11_Witness ==
    /\ res = OkRes
    /\ "Error fetching real flight data:" \in console
    /\ Len(queries) = 2
    /\ queries[1].by = "http" /\ queries[1].idx = 1
    /\ queries[2].by = "http" /\ queries[2].idx = 2
    /\ \E i \in 1..Len(db) : FetchRow(db[i])

\* C12: the search handler runs the return leg iff returnDate is supplied:
\* it never replies from the outbound leg when returnDate is supplied, and
\* it starts a return leg only when one is; the return leg starts in the
\* step in which the outbound call returns (its last date done, or a request
\* rejected), for the swapped airports, the return date and the same
\* flexDays, and its first request is sent then and not before.
C12_ReturnLeg ==
    [][LET t == task["http"]
           u == task'["http"]
       IN  /\ (t.pc # "idle" /\ t.leg = "out" /\ u.pc = "idle")
                   => t.body.returnDate = NoDate
           /\ (t.pc # "idle" /\ t.leg = "out" /\ t.body.returnDate # NoDate
                /\ (FailStep("http")
                    \/ (u # t /\ t.idx = Len(t.datesToSearch)
                        /\ (t.pc = "sleep" \/ Len(t.datesToSearch) = 1))))
                   => u.leg = "ret"
           /\ (u.leg = "ret" /\ t.leg # "ret") =>
                   /\ t.pc # "idle"
                   /\ FailStep("http") \/ t.idx = Len(t.datesToSearch)
                   /\ t.body.returnDate # NoDate
                   /\ u.body = t.body
                   /\ u.origin = ToUpperCase(t.body.destination)
                   /\ u.destination = ToUpperCase(t.body.origin)
                   /\ u.datesToSearch =
                          DatesToSearch(tz, t.body.returnDate, t.body.flexDays)
                   /\ u.idx = 1
                   /\ queries' = Append(queries,
                          [by |-> "http", idx |-> 1, departure_id |-> u.origin,
                           arrival_id |-> u.destination,
                           outbound_date |-> t.body.returnDate,
                           api_key |-> u.apiKey])
           /\ (Len(queries') > Len(queries) /\ u.leg = "ret" /\ u # t) =>
                   t.leg = "ret" \/ t.pc # "idle"]_vars

\* the first request of a return leg is outstanding after the only request
\* of the outbound leg was rejected
C12_Witness ==
    /\ task["http"].leg = "ret"
    /\ task["http"].pc = "get"
    /\ "Error fetching real flight data:" \in console
    /\ Len(queries) = 2
    /\ queries[1].by = "http"
    /\ queries[2].by = "http"
    /\ queries[2].departure_id = MIA

\* the positions of the rows of one airline
Of(rows, a) == {i \in 1..Len(rows) : rows[i].airline = a}

\* the prices of the rows at the positions of I between lo and hi, added up
RECURSIVE TotalIn(_, _, _, _)
TotalIn(rows, I, lo, hi) ==
    IF lo > hi THEN 0
    ELSE IF lo = hi THEN (IF lo \in I THEN rows[lo].price ELSE 0)
    ELSE TotalIn(rows, I, lo, (lo + hi) \div 2)
         + TotalIn(rows, I, (lo + hi) \div 2 + 1, hi)

Total(rows, I) == TotalIn(rows, I, 1, Len(rows))

Lowest(rows, I) ==
    CHOOSE m \in {rows[i].price : i \in I} : \A i \in I : m <= rows[i].price

Highest(rows, I) ==
    CHOOSE m \in {rows[i].price : i \in I} : \A i \in I : m >= rows[i].price

\* v is sum / n rounded to the nearest integer, halves upward
IsMean(v, sum, n) == 2 * n * v - n <= 2 * sum /\ 2 * sum < 2 * n * v + n

Abs(x) == IF x < 0 THEN 0 - x ELSE x

\* the positions of the best-price and of the flex insights of one airline
BestOf(body, a) ==
    {k \in 1..Len(body) : body[k].airline = a /\ body[k].type # "flex"}
FlexOf(body, a) ==
    {k \in 1..Len(body) : body[k].airline = a /\ body[k].type = "flex"}

DatesOf(rows, I) == {rows[i].departure_date : i \in I}
CheapestOn(rows, I, d) == Lowest(rows, {i \in I : rows[i].departure_date = d})

\* the lowest and the highest of the per-date cheapest prices
LowDate(rows, I) ==
    CHOOSE m \in {CheapestOn(rows, I, d) : d \in DatesOf(rows, I)} :
        \A d \in DatesOf(rows, I) : m <= CheapestOn(rows, I, d)
HighDate(rows, I) ==
    CHOOSE m \in {CheapestOn(rows, I, d) : d \in DatesOf(rows, I)} :
        \A d \in DatesOf(rows, I) : m >= CheapestOn(rows, I, d)

\* C14: for an airline whose rows in the window cover at least two departure
\* dates, a flex insight is in the response iff the highest per-date cheapest
\* price exceeds the lowest by more than 20; there is then one, its savings
\* is that difference, its price the lower value, the date it names as the
\* cheaper one is a date whose cheapest price is the lower value, and the
\* other date one whose cheapest price is the higher value.
C14_Flex ==
    out.kind = "insights" =>
        \A rows \in {QueryRecent(out.query)} :
            \A a \in {rows[i].airline : i \in 1..Len(rows)} :
                Cardinality(DatesOf(rows, Of(rows, a))) >= 2 =>
                    \E lo \in {LowDate(rows, Of(rows, a))},
                       hi \in {HighDate(rows, Of(rows, a))} :
                        /\ (FlexOf(out.body, a) # {}) <=> (hi - lo > 20)
                        /\ Cardinality(FlexOf(out.body, a)) <= 1
                        /\ \A k \in FlexOf(out.body, a) :
                              /\ out.body[k].savings = hi - lo
                              /\ out.body[k].price = lo
                              /\ out.body[k].date \in DatesOf(rows, Of(rows, a))
                              /\ CheapestOn(rows, Of(rows, a), out.body[k].date) = lo
                              /\ out.body[k].otherDate \in DatesOf(rows, Of(rows, a))
                              /\ CheapestOn(rows, Of(rows, a), out.body[k].otherDate) = hi

\* a response for one airline at 100 on 2024-03-10 and at 200 on 2024-04-12:
\* a flex insight saving 100 that names 2024-03-10 as the cheaper date
C14_Witness ==
    /\ out.kind = "insights"
    /\ Len(db) = 2
    /\ \E k \in 1..Len(out.body) :
          /\ out.body[k].type = "flex"
          /\ out.body[k].savings = 100
          /\ out.body[k].price = 100
          /\ out.body[k].date = Mar10
          /\ out.body[k].otherDate = Apr12

\* C15: an airline whose rows in the window all depart on one date has no
\* flex insight in the response, whatever the spread of its prices.
C15_OneDateNoFlex ==
    out.kind = "insights" =>
        \A rows \in {QueryRecent(out.query)} :
            \A a \in {rows[i].airline : i \in 1..Len(rows)} :
                Cardinality(DatesOf(rows, Of(rows, a))) = 1 =>
                    FlexOf(out.body, a) = {}

\* a response for an airline with prices from 80 to 200 on one date
C15_Witness ==
    /\ out.kind = "insights"
    /\ \E rows \in {QueryRecent(out.query)} :
          /\ Cardinality(DatesOf(rows, Of(rows, JetBlue))) = 1
          /\ Highest(rows, Of(rows, JetBlue)) - Lowest(rows, Of(rows, JetBlue)) = 120
    /\ \E k \in 1..Len(out.body) : out.body[k].airline = JetBlue

\* how often r occurs in rows
Count(rows, r) == Cardinality({k \in 1..Len(rows) : rows[k] = r})

\* origin and destination of r equal those of the filter, letter case aside
SameRoute(r, q) ==
    /\ ToUpperCase(r.origin) = ToUpperCase(q.origin)
    /\ ToUpperCase(r.destination) = ToUpperCase(q.destination)

\* C17: a history response is ordered by scraped_at ascending and holds
\* exactly the stored rows of the filter's route, each as often as it is
\* stored; without a filter it holds every stored row.
C17_History ==
    out.kind = "history" =>
        /\ \A k \in 1..(Len(out.body) - 1) :
              out.body[k].scraped_at <= out.body[k + 1].scraped_at
        /\ \A r \in {db[i] : i \in 1..Len(db)} \cup {out.body[k] : k \in 1..Len(out.body)} :
              Count(out.body, r) =
                  IF out.query = NoQuery \/ SameRoute(r, out.query)
                  THEN Count(db, r) ELSE 0

\* a history response for jfk/MIA from a table that is not in scraped_at
\* order and that also holds a row of the opposite route
C17_Witness ==
    /\ out.kind = "history"
    /\ out.query = [origin |-> jfk, destination |-> MIA]
    /\ \E i, j \in 1..Len(db) :
          /\ i < j
          /\ db[i].scraped_at > db[j].scraped_at
          /\ db[i].origin = JFK /\ db[j].origin = JFK
    /\ \E i \in 1..Len(db) : db[i].origin = MIA
    /\ Len(out.body) >= 2

\* the rows of sel that fewer than Limit rows of sel were scraped after
NotOld(sel) ==
    SelectSeq(sel, LAMBDA r :
        Cardinality({j \in 1..Len(sel) : sel[j].scraped_at > r.scraped_at}) < Limit)

\* the first Limit rows of rows
FirstLimit(rows) == SubSeq(rows, 1, IF Len(rows) < Limit THEN Len(rows) ELSE Limit)

\* C18: an insights response is computed from at most the 100 most recently
\* scraped rows of the route (of the whole table without a route): it is the
\* response the table gives once every row that 100 or more rows were scraped
\* after is taken out, each insight carries the airline, price and date of a
\* row that is not such a row, and no matching row gives the empty list.
C18_Recent100 ==
    out.kind = "insights" =>
        \A sel \in {Selected(out.query)} :
            \A recent \in {NotOld(sel)} :
                /\ Len(sel) = 0 => out.body = << >>
                /\ \A k \in 1..Len(out.body) :
                      \E i \in 1..Len(recent) :
                          /\ recent[i].airline = out.body[k].airline
                          /\ recent[i].price = out.body[k].price
                          /\ recent[i].departure_date = out.body[k].date
                /\ out.body =
                      DeriveInsights(FirstLimit(SortRows(recent, "scraped_at DESC")))

\* a response from a table of 101 rows whose oldest row, inserted first, is
\* the cheapest of its airline and the only one of its date: no insight
\* carries its price
C18_Witness ==
    /\ out.kind = "insights"
    /\ Len(db) = Limit + 1
    /\ db[1] = Stored(JetBlue, Mar10, 80, NowStart - 300)
    /\ Len(out.body) > 0
    /\ \A k \in 1..Len(out.body) : out.body[k].price # 80

\* C19: scraped_at never decreases in insertion order.
C19_ScrapedMonotone ==
    \A i, j \in 1..Len(db) : i < j => db[i].scraped_at <= db[j].scraped_at

\* C20: a scheduled run and a search may be in progress together and lose no
\* write: with the upstream answering every request with OverlapAnswer, the
\* table holds one row per answered request and retained fare, each the row
\* of a request in the log, equal rows included; no step removes or changes
\* a row.
C20_NoLostWrite ==
    /\ [][Len(db') >= Len(db) /\ SubSeq(db', 1, Len(db)) = db]_vars
    /\ [](/\ Len(db) = served * Cardinality({k \in 1..Len(OverlapAnswer) :
                                                Retained(OverlapAnswer[k])})
          /\ \A i \in 1..Len(db) :
                /\ db[i].airline = JetBlue
                /\ db[i].price = 120
                /\ \E k \in 1..Len(queries) :
                      /\ queries[k].departure_id = db[i].origin
                      /\ queries[k].arrival_id = db[i].destination
                      /\ queries[k].outbound_date = db[i].departure_date
          /\ \A d \in {db[i].departure_date : i \in 1..Len(db)} :
                Cardinality({i \in 1..Len(db) : db[i].departure_date = d})
                    <= Cardinality({k \in 1..Len(queries) :
                                       queries[k].outbound_date = d}))

\* both calls have finished; the scheduled run was started between two
\* requests of the search, and the table holds the same fare twice
C20_Witness ==
    /\ \A p \in Procs : task[p].pc = "idle"
    /\ res = OkRes
    /\ \E i, j, k \in 1..Len(queries) :
          /\ i < j /\ j < k
          /\ queries[i].by = "http" /\ queries[i].idx = 1
          /\ queries[j].by = "cron"
          /\ queries[k].by = "http" /\ queries[k].idx = 2
    /\ \E i, j \in 1..Len(db) : i # j /\ db[i] = db[j]

\* the request sent in this step, if one is
Sent == queries'[Len(queries')]

\* C21: the requests of one call of fetchRealFlightPrices are sent one after
\* the other and paced: a request for a later date of the window is sent only
\* when the pacing timer of the date before it fires, the request before it
\* having been answered; a call over a window of one date never sleeps, and
\* a call over a longer window sleeps after every answered request.
C21_Paced ==
    /\ [][\A p \in Procs :
             /\ (Len(queries') = Len(queries) + 1 /\ Sent.by = p /\ Sent.idx > 1) =>
                   /\ task[p].pc = "sleep"
                   /\ Len(task[p].datesToSearch) > 1
                   /\ Sent.idx = task[p].idx + 1
                   /\ \E k \in 1..Len(queries) :
                         /\ queries[k].by = p
                         /\ queries[k].idx = task[p].idx
                         /\ \A l \in (k + 1)..Len(queries) : queries[l].by # p
             /\ (task[p].pc = "get" /\ served' > served /\ task'[p] # task[p]) =>
                   (task'[p].pc = "sleep") <=> (Len(task[p].datesToSearch) > 1)]_vars
    /\ [](\A p \in Procs :
             task[p].pc = "sleep" => Len(task[p].datesToSearch) > 1)

\* the second request of a window of three dates is outstanding, the first
\* having been answered
C21_Witness ==
    /\ task["http"].pc = "get"
    /\ task["http"].idx = 2
    /\ Len(task["http"].datesToSearch) = 3
    /\ served = 1
    /\ "Error fetching real flight data:" \notin console

\* C22: the ids of an insights response are 1, 2, ..., n in the order of the
\* list, best-price and flex insights counted together.
C22_SequentialIds ==
    out.kind = "insights" =>
        \A k \in 1..Len(out.body) : out.body[k].id = k

\* a response of two best-price insights followed by a flex insight
C22_Witness ==
    /\ out.kind = "insights"
    /\ Len(out.body) = 3
    /\ out.body[1].type = "buy"
    /\ out.body[2].type = "buy"
    /\ out.body[3].type = "flex"
    /\ out.body[3].id = 3

FirstAt(rows, a, m) ==
    CHOOSE i \in Of(rows, a) :
        /\ rows[i].price = m
        /\ \A j \in Of(rows, a) : rows[j].price = m => i <= j

\* C24: in an insights response the best-price insight of an airline carries
\* the lowest price of the airline's rows in the window and the departure
\* date, route and flight detail of the first row at that price, the window
\* being read most recently scraped first.
C24_FirstCheapest ==
    out.kind = "insights" =>
        \A rows \in {QueryRecent(out.query)} :
            /\ \A i \in 1..(Len(rows) - 1) : rows[i].scraped_at >= rows[i + 1].scraped_at
            /\ \A a \in {rows[i].airline : i \in 1..Len(rows)} :
                  \E m \in {Lowest(rows, Of(rows, a))} :
                      \E r \in {rows[FirstAt(rows, a, m)]} :
                          \A k \in BestOf(out.body, a) :
                              /\ out.body[k].price = m
                              /\ out.body[k].date = r.departure_date
                              /\ out.body[k].route = <<r.origin, r.destination>>
                              /\ out.body[k].flightDetail =
                                    [dep |-> r.departure_time, arr |-> r.arrival_time,
                                     stops |-> r.stops]

\* a response for an airline whose lowest price is stored twice, first for
\* 2024-04-12 and an hour later for 2024-03-10: the insight carries the date
\* of the row scraped last
C24_Witness ==
    /\ out.kind = "insights"
    /\ Len(db) = 2
    /\ db[1].airline = JetBlue /\ db[2].airline = JetBlue
    /\ db[1].price = 80 /\ db[2].price = 80
    /\ db[1].departure_date = Apr12 /\ db[2].departure_date = Mar10
    /\ db[1].scraped_at < db[2].scraped_at
    /\ out.body[1].date = Mar10

\* C25: a history query and an insight query change neither the table nor
\* the key rotation, nor the progress of a fetch that is under way.
C25_ReadsPure ==
    [][out'.kind \in {"history", "insights"} =>
          /\ db' = db
          /\ serpKeyIndex' = serpKeyIndex
          /\ serpApiKeys' = serpApiKeys
          /\ draws' = draws
          /\ task' = task
          /\ queries' = queries]_vars

\* a history query answered while a request of a search is outstanding
\* and rows are stored
C25_Witness ==
    /\ out.kind = "history"
    /\ Len(out.body) > 0
    /\ task["http"].pc = "get"
    /\ serpKeyIndex = 1

\* C26: every insight of a response is of type buy, wait or flex and is about
\* an airline of the window; every airline of the window has exactly one
\* insight of type buy or wait and at most one of type flex.
C26_KindsAndCounts ==
    out.kind = "insights" =>
        \A rows \in {QueryRecent(out.query)} :
            /\ \A k \in 1..Len(out.body) :
                  /\ out.body[k].type \in {"buy", "wait", "flex"}
                  /\ \E i \in 1..Len(rows) : rows[i].airline = out.body[k].airline
            /\ \A a \in {rows[i].airline : i \in 1..Len(rows)} :
                  /\ Cardinality({k \in 1..Len(out.body) :
                         out.body[k].airline = a /\ out.body[k].type \in {"buy", "wait"}}) = 1
                  /\ Cardinality({k \in 1..Len(out.body) :
                         out.body[k].airline = a /\ out.body[k].type = "flex"}) <= 1

\* a response for two airlines, one of them with a flex insight and the
\* other without
C26_Witness ==
    /\ out.kind = "insights"
    /\ Cardinality(Of(db, JetBlue)) >= 1
    /\ Cardinality(Of(db, JSX)) >= 2
    /\ FlexOf(out.body, JetBlue) = {}
    /\ FlexOf(out.body, JSX) # {}
    /\ BestOf(out.body, JetBlue) # {}

\* C27: an airline whose rows in the window all have a positive whole-dollar
\* price gets no insight of type wait: its lowest price is at most its
\* rounded mean, so the insight is a buy.
C27_NeverWait ==
    out.kind = "insights" =>
        \A rows \in {QueryRecent(out.query)} :
            \A a \in {rows[i].airline : i \in 1..Len(rows)} :
                (\A i \in Of(rows, a) : rows[i].price > 0) =>
                    \A k \in BestOf(out.body, a) :
                        /\ out.body[k].price <= out.body[k].avg
                        /\ out.body[k].type = "buy"
                        /\ out.body[k].title # "Hold / Wait"

\* a response for a single row at a positive price: lowest price and mean
\* coincide, the insight is Best Price Found
C27_Witness ==
    /\ out.kind = "insights"
    /\ Len(db) = 1
    /\ db[1].price > 0
    /\ out.body[1].price = out.body[1].avg
    /\ out.body[1].title = "Best Price Found"

\* C28: an insights response has at most as many insights as the window has
\* rows, hence at most 100, and an airline with a flex insight has at least
\* two rows in the window; the ids of the list the dashboard merges from the
\* outbound and the return response are therefore pairwise different, those
\* of the outbound leg at most 100 and those of the return leg above 100.
C28_CountAndOffset ==
    /\ out.kind = "insights" =>
          \A rows \in {QueryRecent(out.query)} :
              /\ Len(out.body) <= Len(rows)
              /\ Len(rows) <= 100
              /\ \A a \in {rows[i].airline : i \in 1..Len(rows)} :
                    FlexOf(out.body, a) # {} => Cardinality(Of(rows, a)) >= 2
    /\ out.kind = "dashboard" =>
          /\ \A k, l \in 1..Len(out.body) : k # l => out.body[k].id # out.body[l].id
          /\ \A k \in 1..Len(out.body) :
                IF out.body[k].leg = "outbound"
                THEN out.body[k].id <= 100
                ELSE out.body[k].id > 100

\* the dashboard has merged an outbound response of two insights with a
\* return response of at least one
C28_Witness ==
    /\ out.kind = "dashboard"
    /\ Cardinality({k \in 1..Len(out.body) : out.body[k].leg = "outbound"}) = 2
    /\ \E k \in 1..Len(out.body) : out.body[k].leg = "return" /\ out.body[k].id = 101

\* exactly one of origin and destination is given and non-empty
ExactlyOne(q) ==
    (q.origin \in {Null, EmptyStr}) # (q.destination \in {Null, EmptyStr})

\* C30: a read query that gives exactly one of origin and destination is
\* answered like one that gives none: the history holds every stored row,
\* rows of all routes, each as often as stored, and the insights cover the
\* airlines of all routes; a query that gives both is answered with rows of
\* its route only.
C30_BothOrNone ==
    /\ (out.kind = "history" /\ ExactlyOne(out.query)) =>
          /\ Len(out.body) = Len(db)
          /\ \A i \in 1..Len(db) : Count(out.body, db[i]) = Count(db, db[i])
    /\ (out.kind = "insights" /\ ExactlyOne(out.query) /\ Len(db) <= 100) =>
          /\ \A i \in 1..Len(db) : BestOf(out.body, db[i].airline) # {}
          /\ \A k \in 1..Len(out.body) :
                \E i \in 1..Len(db) :
                    /\ db[i].airline = out.body[k].airline
                    /\ db[i].price = out.body[k].price
    /\ (out.kind = "history" /\ ~ExactlyOne(out.query) /\ out.query # NoQuery) =>
          \A k \in 1..Len(out.body) : SameRoute(out.body[k], out.query)

\* a history query with origin alone, answered with every row of a table
\* that holds rows of the route JFK-MIA and of the route MIA-JFK
C30_Witness ==
    /\ out.kind = "history"
    /\ out.query = [origin |-> jfk, destination |-> Null]
    /\ \E i, j \in 1..Len(db) : db[i].origin = JFK /\ db[j].origin = MIA
    /\ Len(out.body) = Len(db)

\* C29: with keys configured every search request is answered in the end,
\* whatever its body, given that every upstream request is answered or
\* rejected in the end.
C29_EventuallyAnswered ==
    (triggers > 0 /\ res = NoRes) ~> (res # NoRes)

====
